---- MODULE Spec2Model ----
(***************************************************************************)
(* A model of mapshader's rendering core (mapshader/core.py) together with *)
(* the MapSource descriptor it consumes (mapshader/sources.py).            *)
(*                                                                         *)
(* Encoding of Python values:                                              *)
(*   - an optional number is a tuple: <<>> is None, <<v>> is the number v; *)
(*   - an optional string is a string, "None" standing for None;           *)
(*   - values whose Python type the code inspects (span, cmap, data) are   *)
(*     records carrying a `type` field;                                    *)
(*   - a call either returns or raises: a result is a record               *)
(*     [ok, val, err, calls], `calls` being the library calls it made.     *)
(* Coordinates are integers in units of WorldHalf / 2^MaxZ.  A padding     *)
(* fraction p is held as its numerator k over PadDen (p = k / PadDen), and *)
(* the quantities raster_aggregation derives from it are held multiplied   *)
(* by PadDen, so that the arithmetic is exact.                             *)
(***************************************************************************)
EXTENDS Integers, Sequences, FiniteSets, TLC

VARIABLES source, op, req, out

vars == <<source, op, req, out>>

----------------------------------------------------------------------------
(* Bounds of the model *)

MaxZ == 9      \* zoom levels 0..MaxZ are requested
MaxPad == 2    \* padding numerators 0..MaxPad are passed to raster_aggregation
PadDen == 4    \* denominator of the padding fractions

----------------------------------------------------------------------------
(* Python values *)

None == <<>>
Some(v) == <<v>>
IsNone(o) == o = <<>>
Val(o) == o[1]

NoErr == [type |-> "", msg |-> "", arg |-> ""]
NoVal == [fn |-> "none"]

(* `writes` are the buffers a call assigned into in place *)
Ok(v, calls) == [ok |-> TRUE, val |-> v, err |-> NoErr, calls |-> calls, writes |-> {}]
Raise(type, msg, arg, calls) ==
    [ok |-> FALSE, val |-> NoVal,
     err |-> [type |-> type, msg |-> msg, arg |-> arg], calls |-> calls, writes |-> {}]

(* A cell of a numeric grid: a number or NaN *)
Num(v) == [nan |-> FALSE, v |-> v]
NaN == [nan |-> TRUE, v |-> 0]

(* grid[grid == 0] = np.nan *)
ZeroToNaN(cells) == [i \in DOMAIN cells |-> IF cells[i] = Num(0) THEN NaN ELSE cells[i]]

----------------------------------------------------------------------------
(* Source data: a data frame of geometries or a 2-D raster with labelled   *)
(* x / y coordinates.  `keys` are the labels data[...] can be indexed by.  *)
(* `cells` are sample values of the data, which the aggregate made from it *)
(* carries; the array's buffer is named by `id`.                           *)

Frame(id, keys) ==
    [type |-> "DataFrame", id |-> id, keys |-> keys, dims |-> <<"index">>,
     x |-> <<>>, y |-> <<>>, bands |-> 0, rows |-> 3, min |-> 1, max |-> 7,
     dtype |-> "int64", cells |-> <<Num(0), Num(1), Num(7), Num(0)>>]

Raster(id, dims, xs, ys, bands) ==
    [type |-> "DataArray", id |-> id, keys |-> {}, dims |-> dims,
     x |-> xs, y |-> ys, bands |-> bands, rows |-> Len(ys), min |-> 0, max |-> 7,
     dtype |-> "float64", cells |-> <<Num(1), Num(0), NaN, Num(7)>>]

NoData == [type |-> "NoneType", id |-> "None", keys |-> {}, dims |-> <<>>,
           x |-> <<>>, y |-> <<>>, bands |-> 0, rows |-> 0, min |-> 0, max |-> 0,
           dtype |-> "", cells |-> <<>>]

BaseRaster == Raster("base", <<"y", "x">>, <<0, 1, 2, 3>>, <<3, 2, 1, 0>>, 0)
BandRaster == Raster("banded", <<"band", "y", "x">>, <<0, 1, 2, 3>>, <<3, 2, 1, 0>>, 1)
OverviewIds == <<"overview0", "overview1", "overview2">>
Overview(i) == Raster(OverviewIds[i + 1], <<"y", "x">>, <<0, 2>>, <<2, 0>>, 0)
ThreeOverviews == <<Overview(0), Overview(1), Overview(2)>>

(* data[key], as pandas and xarray index by label: a KeyError when the     *)
(* label is absent, a TypeError on None.                                   *)
GetItem(data, key) ==
    IF data.type = "NoneType"
    THEN Raise("TypeError", "object is not subscriptable", key, <<>>)
    ELSE IF key \in data.keys
         THEN Ok([fn |-> "column", of |-> data.id, key |-> key], <<>>)
         ELSE Raise("KeyError", key, key, <<>>)

----------------------------------------------------------------------------
(* MapSource.__init__: the descriptor built from keyword arguments kw.     *)

NoSpan == [type |-> "NoneType", str |-> "", pair |-> <<>>]
MinMaxSpan == [type |-> "str", str |-> "min/max", pair |-> <<>>]
PairSpan == [type |-> "tuple", str |-> "", pair |-> <<0, 10>>]

(* Python truth value of a span *)
Truthy(s) ==
    CASE s.type = "NoneType" -> FALSE
      [] s.type = "str" -> s.str # ""
      [] OTHER -> s.pair # <<>>

Viridis == [type |-> "list", val |-> "viridis"]
ColorKey == [type |-> "dict", val |-> "landcover"]

MapSourceRaises(kw) ==
    kw.span = MinMaxSpan /\ kw.zfield = "None" /\ kw.geometry_type # "raster"

MapSource(kw) ==
    [name |-> kw.name,
     geometry_type |-> kw.geometry_type,
     span |-> kw.span,
     xfield |-> kw.xfield,
     raster_padding |-> 0,
     yfield |-> kw.yfield,
     zfield |-> kw.zfield,
     agg_func |-> kw.agg_func,
     raster_agg_func |-> kw.raster_interpolate,
     shade_how |-> kw.shade_how,
     cmap |-> kw.cmap,
     dynspread |-> kw.dynspread,
     extras |-> kw.extras,
     overviews |-> kw.overviews,
     is_loaded |-> kw.data # NoData,
     data |-> kw.data,
     filepath |-> kw.filepath,
     config_path |-> kw.config_path,
     transforms |-> kw.transforms,
     class |-> "MapSource"]

(* MapSource.from_obj *)
from_obj(obj) ==
    [MapSource(obj) EXCEPT !.class = IF obj.geometry_type = "raster"
                                     THEN "RasterSource" ELSE "VectorSource"]

----------------------------------------------------------------------------
(* MapSource.load *)

ZipPaths == {"zip://nybb.zip"}
AbsPaths == {"/data/elevation.tif", "/data/cities.shp"}
RasterPaths == {"/data/elevation.tif", "elevation.tif"}

(* The path load() hands to load_func: the config-relative path of the   *)
(* first block is always overwritten by one of the three branches below it *)
data_path(src) ==
    IF src.filepath \in ZipPaths THEN [path |-> src.filepath, under |-> ""]
    ELSE IF src.filepath \notin AbsPaths
    THEN [path |-> src.filepath, under |-> "cwd"]
    ELSE [path |-> src.filepath, under |-> ""]

(* What load_raster / load_vector read at a path *)
FileAt(path) ==
    IF path.path \in RasterPaths THEN BandRaster
    ELSE Frame("cities", {"geometry", "z"})

load_func(src, path) ==
    CASE src.class = "RasterSource" -> Ok(FileAt(path), <<"load_raster">>)
      [] src.class = "VectorSource" -> Ok(FileAt(path), <<"load_vector">>)
      [] OTHER -> Raise("NotImplementedError", "", "", <<>>)

_transforms ==
    {"reproject_raster", "reproject_vector", "orient_array", "cast", "flip_coords",
     "build_raster_overviews", "squeeze", "to_spatialpandas", "add_xy_fields",
     "select_by_attributes", "polygon_to_line", "geopandas_line_to_datashader_line"}

RECURSIVE apply_transforms(_, _, _)
apply_transforms(src, transforms, calls) ==
    IF transforms = <<>> THEN [ok |-> TRUE, src |-> src, calls |-> calls, key |-> ""]
    ELSE LET transform_name == Head(transforms)
         IN  IF transform_name \notin _transforms
             THEN [ok |-> FALSE, src |-> src, calls |-> calls, key |-> transform_name]
             ELSE apply_transforms(
                    CASE transform_name = "build_raster_overviews" ->
                           [src EXCEPT !.overviews = ThreeOverviews]
                      [] transform_name = "squeeze" ->
                           [src EXCEPT !.data.dims = SelectSeq(@, LAMBDA d : d # "band"),
                                       !.data.bands = 0]
                      [] transform_name = "to_spatialpandas" ->
                           [src EXCEPT !.data.type = "spatialpandas.GeoDataFrame"]
                      [] OTHER ->
                           [src EXCEPT !.data.id = transform_name],
                    Tail(transforms), Append(calls, transform_name))

(* load(): <<the call's result, the source after it>> *)
load(src) ==
    IF src.is_loaded THEN <<Ok([fn |-> "self"], <<>>), src>>
    ELSE IF src.filepath = "None" /\ src.config_path # "None"
    THEN <<Raise("TypeError", "expected str, bytes or os.PathLike object", "", <<>>), src>>
    ELSE IF src.filepath = "None"
    THEN <<Raise("AttributeError", "object has no attribute", "startswith", <<>>), src>>
    ELSE
      LET d == load_func(src, data_path(src))
      IN  IF ~d.ok THEN <<d, src>>
          ELSE LET t == apply_transforms([src EXCEPT !.data = d.val], src.transforms,
                                         <<"load_func">>)
               IN  IF t.ok THEN <<Ok([fn |-> "self"], t.calls), t.src>>
                   ELSE <<Raise("KeyError", t.key, t.key, t.calls), t.src>>

----------------------------------------------------------------------------
(* The tile grid: the world square split into 2^z tiles along each axis.   *)

WorldHalf == 2 ^ MaxZ

tile_def == [x_range |-> <<-WorldHalf, WorldHalf>>,
             y_range |-> <<-WorldHalf, WorldHalf>>]

get_tile_meters(x, y, z) ==
    LET xsz == (tile_def.x_range[2] - tile_def.x_range[1]) \div (2 ^ z)
        ysz == (tile_def.y_range[2] - tile_def.y_range[1]) \div (2 ^ z)
        ty == (2 ^ z) - 1 - y
    IN  <<tile_def.x_range[1] + x * xsz, tile_def.y_range[1] + ty * ysz,
          tile_def.x_range[1] + (x + 1) * xsz, tile_def.y_range[1] + (ty + 1) * ysz>>

----------------------------------------------------------------------------
(* Canvases and aggregates.  A canvas whose `scale` is s holds its sizes   *)
(* and ranges multiplied by s.                                             *)

Canvas(plot_width, plot_height, x_range, y_range, scale) ==
    [plot_width |-> plot_width, plot_height |-> plot_height,
     x_range |-> x_range, y_range |-> y_range, scale |-> scale]

(* The grid an aggregator makes from `data`: a new array (buffer <<fn>>)   *)
(* holding the data's sample values.                                       *)
Aggregate(fn, data, fields, sel_x, sel_y, reduction, interpolate, cvs) ==
    [fn |-> fn, data |-> data.id, fields |-> fields, x |-> sel_x, y |-> sel_y,
     reduction |-> reduction, interpolate |-> interpolate, cvs |-> cvs,
     dtype |-> data.dtype, zero_is_nan |-> FALSE, transforms |-> <<>>,
     buf |-> <<fn>>, cells |-> data.cells]

(* getattr(ds, agg_func)(zfield) *)
Reduction(agg_func, zfield) == <<agg_func, zfield>>

point_aggregation(cvs, data, xfield, yfield, zfield, agg_func) ==
    IF zfield # "None"
    THEN IF agg_func = "None"
         THEN Raise("TypeError", "getattr(): attribute name must be string", "None", <<"Canvas">>)
         ELSE Ok(Aggregate("points", data, <<xfield, yfield>>, <<>>, <<>>,
                           Reduction(agg_func, zfield), "", cvs), <<"Canvas", "points">>)
    ELSE Ok(Aggregate("points", data, <<xfield, yfield>>, <<>>, <<>>, <<>>, "", cvs),
            <<"Canvas", "points">>)

line_aggregation(cvs, data, xfield, yfield, zfield, agg_func) ==
    IF zfield # "None"
    THEN IF agg_func = "None"
         THEN Raise("TypeError", "getattr(): attribute name must be string", "None", <<"Canvas">>)
         ELSE Ok(Aggregate("line", data, <<xfield, yfield>>, <<>>, <<>>,
                           Reduction(agg_func, zfield), "", cvs), <<"Canvas", "line">>)
    ELSE Ok(Aggregate("line", data, <<xfield, yfield>>, <<>>, <<>>, <<>>, "", cvs),
            <<"Canvas", "line">>)

polygon_aggregation(cvs, data, zfield, agg_func) ==
    IF zfield # "None"
    THEN IF agg_func = "None"
         THEN Raise("TypeError", "getattr(): attribute name must be string", "None", <<"Canvas">>)
         ELSE Ok(Aggregate("polygons", data, <<"geometry">>, <<>>, <<>>,
                           Reduction(agg_func, zfield), "", cvs), <<"Canvas", "polygons">>)
    ELSE Ok(Aggregate("polygons", data, <<"geometry">>, <<>>, <<>>, <<>>, "", cvs),
            <<"Canvas", "polygons">>)

----------------------------------------------------------------------------
(* raster_aggregation.  padding is the numerator of the padding fraction;  *)
(* every quantity below is the code's value multiplied by PadDen.          *)

xdrange(cvs, padding) == (cvs.x_range[2] - cvs.x_range[1]) * (PadDen + 2 * padding)
ydrange(cvs, padding) == (cvs.y_range[2] - cvs.y_range[1]) * (PadDen + 2 * padding)
(* A variant that pads the width on one side only *)
xsize_one_side(cvs, padding) == cvs.plot_width * (PadDen + padding)

xsize(cvs, padding) == cvs.plot_width * (PadDen + 2 * padding)
ysize(cvs, padding) == cvs.plot_height * (PadDen + 2 * padding)

(* <<new_xmin, new_ymin, new_xmax, new_ymax>> *)
padded_window(cvs, padding) ==
    LET xmin == cvs.x_range[1] * PadDen
        xmax == cvs.x_range[2] * PadDen
        ymin == cvs.y_range[1] * PadDen
        ymax == cvs.y_range[2] * PadDen
    IN  IF padding > 0
        THEN <<xmin - xdrange(cvs, padding), ymin - ydrange(cvs, padding),
               xmin + xdrange(cvs, padding), xmin + ydrange(cvs, padding)>>
        ELSE <<xmin, ymin, xmax, ymax>>

(* Label-based slicing coords.loc[start:stop] of a monotonic index, both   *)
(* ends included; an end of None is open.  Labels are compared at `scale`. *)
IsDescending(coords) == Len(coords) > 1 /\ coords[1] > coords[Len(coords)]

InSlice(l, start, stop, desc) ==
    IF desc
    THEN (IsNone(start) \/ l <= Val(start)) /\ (IsNone(stop) \/ l >= Val(stop))
    ELSE (IsNone(start) \/ l >= Val(start)) /\ (IsNone(stop) \/ l <= Val(stop))

LocSlice(coords, start, stop, scale) ==
    LET desc == IsDescending(coords)
        Keep(l) == InSlice(l * scale, start, stop, desc)
    IN  SelectSeq(coords, Keep)

(* data.loc[{'x': xs, 'y': ys}] *)
Loc(data, xs, ys, scale) ==
    [data EXCEPT !.x = LocSlice(data.x, xs[1], xs[2], scale),
                 !.y = LocSlice(data.y, ys[1], ys[2], scale)]

(* len(data): the size of the first dimension *)
PyLen(data) ==
    CASE data.dims = <<>> -> 0
      [] data.dims[1] = "y" -> Len(data.y)
      [] data.dims[1] = "x" -> Len(data.x)
      [] data.dims[1] = "band" -> data.bands
      [] OTHER -> data.rows

raster_aggregation(cvs, data, interpolate, padding) ==
    LET w == padded_window(cvs, padding)
        new_xmin == w[1]
        new_ymin == w[2]
        new_xmax == w[3]
        new_ymax == w[4]
        stcvs == Canvas(xsize(cvs, padding), ysize(cvs, padding),
                        <<new_xmin, new_xmax>>, <<new_ymin, new_ymax>>, PadDen)
        xs == <<Some(new_xmin), Some(new_xmax)>>
        ys == <<Some(new_ymax), Some(new_ymin)>>
        data_to_rasterize == Loc(data, xs, ys, PadDen)
    IN  IF PyLen(data_to_rasterize) = 0
        THEN Raise("ValueError", "No data to rasterize", "", <<"Canvas", "loc">>)
        ELSE Ok(Aggregate("raster", data_to_rasterize, <<>>, data_to_rasterize.x, data_to_rasterize.y,
                          <<>>, interpolate, stcvs), <<"Canvas", "loc", "raster">>)

----------------------------------------------------------------------------
(* create_agg *)

has_tile(x, y, z) == ~IsNone(x) /\ ~IsNone(y) /\ ~IsNone(z)

extent_missing(xmin, ymin, xmax, ymax) ==
    IsNone(xmin) \/ IsNone(xmax) \/ IsNone(ymin) \/ IsNone(ymax)

(* The index into source.overviews the zoom band of z selects; None when   *)
(* the base raster is kept.                                                *)
(* A variant whose bands include their upper zoom *)
overview_band_inclusive(z) ==
    IF z <= 3 THEN Some(0)
    ELSE IF z <= 6 THEN Some(1)
    ELSE IF z <= 9 THEN Some(2)
    ELSE None

overview_band(z) ==
    IF z < 3 THEN Some(0)
    ELSE IF z < 6 THEN Some(1)
    ELSE IF z < 9 THEN Some(2)
    ELSE None

select_dataset(src, z) ==
    IF ~IsNone(z) /\ Len(src.overviews) > 0
    THEN LET b == overview_band(Val(z))
         IN  IF IsNone(b) THEN Ok(src.data, <<>>)
             ELSE IF Val(b) + 1 > Len(src.overviews)
                  THEN Raise("IndexError", "list index out of range", "", <<>>)
                  ELSE Ok(src.overviews[Val(b) + 1], <<>>)
    ELSE Ok(src.data, <<>>)

unknown_geometry(dataset) ==
    LET name == GetItem(dataset, "name")
    IN  IF name.ok
        THEN Raise("ValueError", "Unkown geometry type for", "Series(name)", <<"Canvas">>)
        ELSE [name EXCEPT !.calls = <<"Canvas">>]

(* The body of create_agg once the extent <<xmin, ymin, xmax, ymax>> is known *)
aggregate_extent(src, ext, z, height, width) ==
    LET xfield == src.xfield
        yfield == src.yfield
        zfield == src.zfield
        agg_func == src.agg_func
        geometry_type == src.geometry_type
        dataset == src.data
        cvs == Canvas(width, height, <<ext[1], ext[3]>>, <<ext[2], ext[4]>>, 1)
    IN  CASE geometry_type = "point" ->
               point_aggregation(cvs, dataset, xfield, yfield, zfield, agg_func)
          [] geometry_type = "line" ->
               line_aggregation(cvs, dataset, xfield, yfield, zfield, agg_func)
          [] geometry_type = "polygon" ->
               polygon_aggregation(cvs, dataset, zfield, agg_func)
          [] geometry_type = "raster" ->
               LET d == select_dataset(src, z)
               IN  IF d.ok
                   THEN raster_aggregation(cvs, d.val, agg_func, src.raster_padding)
                   ELSE [d EXCEPT !.calls = <<"Canvas">>]
          [] OTHER -> unknown_geometry(dataset)

(* A variant that renders the whole world when bounds are missing *)
create_agg_world_default(src, xmin, ymin, xmax, ymax, x, y, z, height, width) ==
    IF has_tile(x, y, z)
    THEN aggregate_extent(src, get_tile_meters(Val(x), Val(y), Val(z)), z, height, width)
    ELSE IF extent_missing(xmin, ymin, xmax, ymax)
    THEN aggregate_extent(src, <<-WorldHalf, -WorldHalf, WorldHalf, WorldHalf>>,
                          z, height, width)
    ELSE aggregate_extent(src, <<Val(xmin), Val(ymin), Val(xmax), Val(ymax)>>,
                          z, height, width)

create_agg(src, xmin, ymin, xmax, ymax, x, y, z, height, width) ==
    IF has_tile(x, y, z)
    THEN aggregate_extent(src, get_tile_meters(Val(x), Val(y), Val(z)), z, height, width)
    ELSE IF extent_missing(xmin, ymin, xmax, ymax)
    THEN Raise("ValueError", "extent must be provided to create_agg()", "", <<>>)
    ELSE aggregate_extent(src, <<Val(xmin), Val(ymin), Val(xmax), Val(ymax)>>,
                          z, height, width)

----------------------------------------------------------------------------
(* apply_additional_transforms *)

additional_transforms == [hillshade |-> "xrspatial.hillshade",
                          quantile |-> "xrspatial.classify.quantile"]

(* The number of distinct values of the grid below v: its class *)
ClassOf(cells, v) ==
    Cardinality({cells[i].v : i \in {j \in DOMAIN cells : ~cells[j].nan /\ cells[j].v < v}})

(* trans(agg): a new grid.  quantile gives every cell its class, counted   *)
(* from 0; hillshade gives no value on the edge of the grid (the shading   *)
(* of an inner cell is the library's: the cell's value stands for it).     *)
Transformed(e, agg) ==
    [agg EXCEPT !.transforms = Append(@, e),
                !.buf = <<e>>,
                !.cells = [i \in DOMAIN @ |->
                             CASE e = "quantile" ->
                                    IF @[i].nan THEN NaN ELSE Num(ClassOf(agg.cells, @[i].v))
                               [] e = "hillshade" ->
                                    IF i \in {1, Len(agg.cells)} THEN NaN ELSE @[i]
                               [] OTHER -> @[i]]]

RECURSIVE apply_extras(_, _, _)
apply_extras(extras, agg, calls) ==
    IF extras = <<>> THEN Ok(agg, calls)
    ELSE LET e == Head(extras)
         IN  IF e \in DOMAIN additional_transforms
             THEN LET trans == additional_transforms[e]
                  IN  IF trans # "None"
                      THEN apply_extras(Tail(extras), Transformed(e, agg),
                                        Append(calls, e))
                      ELSE Raise("ValueError", "Invalid transform name", e, calls)
             ELSE apply_extras(Tail(extras), agg, calls)

(* agg.astype('float64'): a copy in a buffer of its own *)
AsFloat64(agg) == [agg EXCEPT !.dtype = "float64", !.buf = Append(@, "astype")]

(* A variant that assigns NaN into the source's data *)
nan_target_source(src, agg) == <<src.data.id>>

(* The buffer `agg.data[agg.data == 0] = np.nan` assigns into *)
nan_target(src, agg) == agg.buf

(* A variant that returns the aggregate as it is when there are no extras *)
apply_additional_transforms_if_any(src, agg) ==
    IF src.extras = <<>>
    THEN Ok(agg, <<>>)
    ELSE LET copy == AsFloat64(agg)
             r == apply_extras(src.extras,
                               [copy EXCEPT !.cells = ZeroToNaN(@), !.zero_is_nan = TRUE],
                               <<"astype", "setitem">>)
         IN  [r EXCEPT !.writes = {copy.buf}]

apply_additional_transforms(src, agg) ==
    LET copy == AsFloat64(agg)
        target == nan_target(src, copy)
        filled == IF target = copy.buf
                  THEN [copy EXCEPT !.cells = ZeroToNaN(@), !.zero_is_nan = TRUE]
                  ELSE copy
        r == apply_extras(src.extras, filled, <<"astype", "setitem">>)
    IN  [r EXCEPT !.writes = {target}]

----------------------------------------------------------------------------
(* shade_agg.  An image records the tf.shade call that made it: the        *)
(* keyword arguments passed (`passed`) and their values, the slice it was  *)
(* cropped by (None: not cropped) and the spreading applied (None: none).  *)

NoCmap == [type |-> "NoneType", val |-> ""]

Image(agg, passed, color_key, cmap, how, span) ==
    [fn |-> "shade", agg |-> agg, passed |-> passed, color_key |-> color_key,
     cmap |-> cmap, how |-> how, span |-> span, crop |-> None, max_px |-> None,
     x_range |-> agg.cvs.x_range, y_range |-> agg.cvs.y_range]

Max(a, b) == IF a > b THEN a ELSE b
Min(a, b) == IF a < b THEN a ELSE b

(* The part of range (held at `scale`) that the label slice lo..hi keeps *)
Clip(range, lo, hi, scale) ==
    <<IF IsNone(lo) THEN range[1] ELSE Max(range[1], Val(lo) * scale),
      IF IsNone(hi) THEN range[2] ELSE Min(range[2], Val(hi) * scale)>>

(* img.loc[{'x': slice(xmin, xmax), 'y': slice(ymax, ymin)}] *)
Crop(img, xmin, ymin, xmax, ymax) ==
    [img EXCEPT !.crop = Some([x |-> <<xmin, xmax>>, y |-> <<ymax, ymin>>]),
                !.x_range = Clip(@, xmin, xmax, img.agg.cvs.scale),
                !.y_range = Clip(@, ymin, ymax, img.agg.cvs.scale)]

(* A variant that tests the span before the color map *)
shade_policy_span_first(src) ==
    LET span == src.span
    IN  IF Truthy(span) /\ span = MinMaxSpan /\ src.geometry_type = "raster"
        THEN "raster min/max"
        ELSE IF Truthy(span) /\ span = MinMaxSpan THEN "min/max"
        ELSE IF span.type = "tuple" THEN "span"
        ELSE IF src.cmap.type = "dict" THEN "color_key"
        ELSE "no span"

(* Which branch of shade_agg the source takes *)
shade_policy(src) ==
    LET span == src.span
    IN  IF src.cmap.type = "dict" THEN "color_key"
        ELSE IF Truthy(span) /\ span = MinMaxSpan /\ src.geometry_type = "raster"
        THEN "raster min/max"
        ELSE IF Truthy(span) /\ span = MinMaxSpan THEN "min/max"
        ELSE IF span.type = "tuple" THEN "span"
        ELSE "no span"

shade_agg(src, agg, xmin, ymin, xmax, ymax) ==
    LET df == src.data
        zfield == src.zfield
        how == src.shade_how
        cmap == src.cmap
        span == src.span
        policy == shade_policy(src)
    IN  CASE policy = "color_key" ->
               Ok(Image(agg, {"color_key"}, cmap, NoCmap, "", <<>>), <<"shade">>)
          [] policy = "raster min/max" ->
               IF df.type = "NoneType"
               THEN Raise("AttributeError", "object has no attribute", "min", <<>>)
               ELSE Ok(Crop(Image(agg, {"cmap", "how", "span"}, NoCmap, cmap, how,
                                  <<df.min, df.max + 1>>),
                            xmin, ymin, xmax, ymax), <<"shade", "loc">>)
          [] policy = "min/max" ->
               LET col == GetItem(df, zfield)
               IN  IF col.ok
                   THEN Ok(Image(agg, {"cmap", "how", "span"}, NoCmap, cmap, how,
                                 <<df.min, df.max>>), <<"shade">>)
                   ELSE col
          [] policy = "span" ->
               Ok(Image(agg, {"cmap", "how", "span"}, NoCmap, cmap, how, span.pair),
                  <<"shade">>)
          [] OTHER ->
               Ok(Image(agg, {"cmap", "how"}, NoCmap, cmap, how, <<>>), <<"shade">>)

----------------------------------------------------------------------------
(* render_map *)

(* A variant that spreads whenever dynspread is set *)
spread_applies_when_set(src) == ~IsNone(src.dynspread)

spread_applies(src) == ~IsNone(src.dynspread) /\ Val(src.dynspread) # 0
                       /\ Val(src.dynspread) > 0

(* tf.dynspread(img, threshold=1, max_px=int(source.dynspread)) *)
dynspread(img, max_px) == [img EXCEPT !.max_px = Some(max_px)]

render_map(src, xmin, ymin, xmax, ymax, x, y, z, height, width) ==
    LET a == create_agg(src, xmin, ymin, xmax, ymax, x, y, z, height, width)
    IN  IF ~a.ok THEN a
        ELSE
        LET t == apply_additional_transforms(src, a.val)
        IN  IF ~t.ok THEN [t EXCEPT !.calls = a.calls \o @]
            ELSE
            LET s == shade_agg(src, t.val, xmin, ymin, xmax, ymax)
                r == IF ~s.ok THEN [s EXCEPT !.calls = a.calls \o t.calls \o @]
                     ELSE IF spread_applies(src)
                     THEN Ok(dynspread(s.val, Val(src.dynspread)),
                             a.calls \o t.calls \o s.calls \o <<"dynspread">>)
                     ELSE Ok(s.val, a.calls \o t.calls \o s.calls)
            IN  [r EXCEPT !.writes = a.writes \cup t.writes \cup s.writes]

(* render_geojson *)
render_geojson(src) ==
    IF src.data.type = "spatialpandas.GeoDataFrame"
    THEN Ok([fn |-> "geojson", data |-> src.data.id], <<"to_geopandas", "to_json">>)
    ELSE IF src.data.type = "NoneType"
    THEN Raise("AttributeError", "object has no attribute",
               IF src.geometry_type \in {"line", "raster"} THEN "to_dict" ELSE "to_json",
               <<>>)
    ELSE IF src.geometry_type \in {"line", "raster"}
    THEN Ok([fn |-> "geojson", data |-> src.data.id], <<"to_dict", "dumps">>)
    ELSE IF src.data.type = "DataArray"
    THEN Raise("AttributeError", "object has no attribute", "to_json", <<>>)
    ELSE Ok([fn |-> "geojson", data |-> src.data.id], <<"to_json">>)

(* The source once a call has assigned into the buffers `writes` *)
Assigned(data, writes) ==
    IF <<data.id>> \in writes THEN [data EXCEPT !.cells = ZeroToNaN(@)] ELSE data

Written(src, writes) ==
    [src EXCEPT !.data = Assigned(@, writes),
                !.overviews = [i \in DOMAIN @ |-> Assigned(@[i], writes)]]

----------------------------------------------------------------------------
(* Inputs: source configurations and requests *)

GeometryTypes == {"point", "line", "polygon", "raster", "None", "mesh"}
KnownVector == {"point", "line", "polygon"}
Spans == {NoSpan, MinMaxSpan, PairSpan}
Cmaps == {Viridis, ColorKey}
Dynspreads == {None, Some(0), Some(2)}
ExtrasLists == {<<>>, <<"quantile">>, <<"contour">>, <<"hillshade", "contour", "quantile">>}
PadNums == 0 .. MaxPad

Countries == Frame("countries", {"geometry", "z", "name"})
Cities == Frame("cities", {"geometry", "z"})
Boroughs == [Frame("boroughs", {"geometry", "z"}) EXCEPT !.type = "spatialpandas.GeoDataFrame"]

(* The data a source of each geometry type is given *)
DataFor(geometry_type) ==
    CASE geometry_type = "raster" -> {BaseRaster}
      [] geometry_type = "polygon" -> {Boroughs}
      [] geometry_type \in KnownVector -> {Cities}
      [] OTHER -> {Countries, Cities, BaseRaster}

OverviewsFor(geometry_type) ==
    IF geometry_type = "raster" THEN {<<>>, ThreeOverviews} ELSE {<<>>}

AllConfigs ==
    [name : {"elevation"}, geometry_type : GeometryTypes, span : Spans,
     xfield : {"geometry"}, yfield : {"geometry"}, zfield : {"None", "z"},
     agg_func : {"max"}, raster_interpolate : {"linear"}, shade_how : {"linear"},
     cmap : Cmaps, dynspread : Dynspreads, extras : ExtrasLists,
     raster_padding : PadNums, data : {Countries, Cities, Boroughs, BaseRaster},
     overviews : {<<>>, ThreeOverviews}, filepath : {"None"}, config_path : {"None"},
     transforms : {<<>>}]

SourceConfigs ==
    {kw \in AllConfigs : /\ ~MapSourceRaises(kw)
                         /\ kw.data \in DataFor(kw.geometry_type)
                         /\ kw.overviews \in OverviewsFor(kw.geometry_type)}

(* Requested extents <<xmin, ymin, xmax, ymax>>; the rasters span 0..3 *)
Extents == {<<0, 0, 4, 4>>, <<1, 1, 2, 2>>, <<-2, 1, 2, 3>>, <<8, 0, 12, 4>>,
            <<0, 8, 4, 12>>}

Bounds(e) == [xmin |-> Some(e[1]), ymin |-> Some(e[2]),
              xmax |-> Some(e[3]), ymax |-> Some(e[4])]

NoBounds == [xmin |-> None, ymin |-> None, xmax |-> None, ymax |-> None]

PartialBounds ==
    {[Bounds(<<0, 0, 4, 4>>) EXCEPT ![f] = None] : f \in {"xmin", "ymin", "xmax", "ymax"}}

Zooms == 0 .. MaxZ

(* Tile addresses at zoom z: the corner tile and the tile whose lower left *)
(* corner is the origin.                                                   *)
TilesAt(z) ==
    {[x |-> Some(0), y |-> Some(0), z |-> Some(z)],
     [x |-> Some(2 ^ z \div 2), y |-> Some(IF z = 0 THEN 0 ELSE 2 ^ z \div 2 - 1),
      z |-> Some(z)]}

Tiles == UNION {TilesAt(z) : z \in Zooms}

IncompleteTiles ==
    {[x |-> None, y |-> None, z |-> None], [x |-> Some(0), y |-> Some(0), z |-> None]}
    \cup {[x |-> None, y |-> None, z |-> Some(z)] : z \in Zooms}
    \cup {[x |-> Some(0), y |-> None, z |-> Some(z)] : z \in Zooms}

(* Inputs of the direct calls of shade_agg and raster_aggregation *)
SampleAggs ==
    {Aggregate("points", Cities, <<"geometry", "geometry">>, <<>>, <<>>, <<>>, "",
               Canvas(256, 256, <<0, 4>>, <<0, 4>>, 1))}

(* Aggregates handed to apply_additional_transforms: counts with zeros on  *)
(* the edge, counts with zeros inside, a resampled raster holding a NaN    *)
Sparse == [Frame("sparse", {"geometry", "z"}) EXCEPT
              !.dtype = "uint32", !.cells = <<Num(3), Num(0), Num(0), Num(5)>>]

TransformAggs ==
    SampleAggs \cup
    {Aggregate("points", Sparse, <<"geometry", "geometry">>, <<>>, <<>>, <<>>, "",
               Canvas(256, 256, <<0, 4>>, <<0, 4>>, 1)),
     Aggregate("raster", BaseRaster, <<>>, <<0, 3>>, <<3, 0>>, <<>>, "linear",
               Canvas(256, 256, <<0, 4>>, <<0, 4>>, 1))}

ShadeBounds == {NoBounds, Bounds(<<0, 0, 4, 4>>), Bounds(<<1, 1, 2, 2>>)}

Sizes == {<<256, 256>>, <<2, 4>>}

Canvases == {Canvas(sz[1], sz[2], <<e[1], e[3]>>, <<e[2], e[4]>>, 1) :
                e \in Extents, sz \in Sizes}

Rasters == {BaseRaster, BandRaster}

Interpolations == {"linear", "nearest"}

Request(b, t, height, width) ==
    [xmin |-> b.xmin, ymin |-> b.ymin, xmax |-> b.xmax, ymax |-> b.ymax,
     x |-> t.x, y |-> t.y, z |-> t.z, height |-> height, width |-> width]

Requests ==
    {Request(b, t, 256, 256) :
        b \in {NoBounds, Bounds(<<8, 0, 12, 4>>)}, t \in Tiles}
    \cup {Request(b, t, 256, 256) :
        b \in {Bounds(e) : e \in Extents} \cup PartialBounds \cup {NoBounds},
        t \in IncompleteTiles}

----------------------------------------------------------------------------
(* The state machine: a source is constructed, then rendering calls are    *)
(* made on it; each call's arguments and result stay in req and out until  *)
(* the caller drops them.                                                  *)

NoReq == [op |-> "none"]
NoOut == [ok |-> TRUE, val |-> NoVal, err |-> NoErr, calls |-> <<>>, writes |-> {}]

Init ==
    \E kw \in SourceConfigs :
        /\ source = MapSource(kw)
        /\ op = "idle"
        /\ req = NoReq
        /\ out = NoOut

CreateAgg ==
    \E r \in Requests :
        /\ op = "idle"
        /\ op' = "create_agg"
        /\ req' = r
        /\ out' = create_agg(source, r.xmin, r.ymin, r.xmax, r.ymax,
                             r.x, r.y, r.z, r.height, r.width)
        /\ UNCHANGED source

RenderMap ==
    \E r \in Requests :
        /\ op = "idle"
        /\ op' = "render_map"
        /\ req' = r
        /\ out' = render_map(source, r.xmin, r.ymin, r.xmax, r.ymax,
                             r.x, r.y, r.z, r.height, r.width)
        /\ source' = Written(source, out'.writes)

ShadeAgg ==
    \E agg \in SampleAggs, b \in ShadeBounds :
        /\ op = "idle"
        /\ op' = "shade_agg"
        /\ req' = [agg |-> agg, xmin |-> b.xmin, ymin |-> b.ymin,
                   xmax |-> b.xmax, ymax |-> b.ymax]
        /\ out' = shade_agg(source, agg, b.xmin, b.ymin, b.xmax, b.ymax)
        /\ UNCHANGED source

ApplyAdditionalTransforms ==
    \E agg \in TransformAggs :
        /\ op = "idle"
        /\ op' = "apply_additional_transforms"
        /\ req' = [agg |-> agg]
        /\ out' = apply_additional_transforms(source, agg)
        /\ source' = Written(source, out'.writes)

RasterAggregation ==
    \E cvs \in Canvases, data \in Rasters, interpolate \in Interpolations,
       padding \in PadNums :
        /\ op = "idle"
        /\ op' = "raster_aggregation"
        /\ req' = [cvs |-> cvs, data |-> data, interpolate |-> interpolate,
                   padding |-> padding]
        /\ out' = raster_aggregation(cvs, data, interpolate, padding)
        /\ UNCHANGED source

RenderGeojson ==
    /\ op = "idle"
    /\ op' = "render_geojson"
    /\ req' = NoReq
    /\ out' = render_geojson(source)
    /\ UNCHANGED source

Load ==
    /\ op = "idle"
    /\ op' = "load"
    /\ req' = NoReq
    /\ out' = load(source)[1]
    /\ source' = load(source)[2]

Discard ==
    /\ op # "idle"
    /\ op' = "idle"
    /\ req' = NoReq
    /\ out' = NoOut
    /\ UNCHANGED source

Next ==
    CreateAgg \/ RenderMap \/ ShadeAgg \/ ApplyAdditionalTransforms \/ RenderGeojson
        \/ Discard

Spec == Init /\ [][Next]_vars

(* raster_aggregation called on its own, on a default raster source *)
DefaultRasterConfig ==
    [name |-> "elevation", geometry_type |-> "raster", span |-> NoSpan,
     xfield |-> "geometry", yfield |-> "geometry", zfield |-> "None",
     agg_func |-> "max", raster_interpolate |-> "linear", shade_how |-> "linear",
     cmap |-> Viridis, dynspread |-> None, extras |-> <<>>, raster_padding |-> 0,
     data |-> BaseRaster, overviews |-> <<>>, filepath |-> "None",
     config_path |-> "None", transforms |-> <<>>]

InitRaster ==
    /\ source = MapSource(DefaultRasterConfig)
    /\ op = "idle"
    /\ req = NoReq
    /\ out = NoOut

NextRaster == RasterAggregation \/ Discard

SpecRaster == InitRaster /\ [][NextRaster]_vars

(* Sources as the configuration constructs them, then loaded *)
FilepathsFor(geometry_type) ==
    IF geometry_type = "raster" THEN {"None", "/data/elevation.tif", "elevation.tif"}
    ELSE {"None", "/data/cities.shp", "cities.shp", "zip://nybb.zip"}

TransformsFor(geometry_type) ==
    IF geometry_type = "raster"
    THEN {<<>>, <<"squeeze">>, <<"squeeze", "build_raster_overviews">>,
          <<"squeeze", "rescale">>}
    ELSE {<<>>, <<"to_spatialpandas">>}

LifecycleConfigs ==
    {[DefaultRasterConfig EXCEPT !.geometry_type = g, !.data = d, !.filepath = f,
                                 !.config_path = c, !.transforms = t,
                                 !.raster_padding = p] :
        g \in {"raster", "point"}, d \in {NoData, BaseRaster, Cities},
        f \in FilepathsFor("raster") \cup FilepathsFor("point"),
        c \in {"None", "/etc/mapshader/config.yml"},
        t \in TransformsFor("raster") \cup TransformsFor("point"), p \in PadNums}

SourceObjs ==
    {kw \in LifecycleConfigs : /\ kw.data \in DataFor(kw.geometry_type) \cup {NoData}
                               /\ kw.filepath \in FilepathsFor(kw.geometry_type)
                               /\ kw.transforms \in TransformsFor(kw.geometry_type)}

InitSource ==
    \E kw \in SourceObjs :
        /\ source \in {MapSource(kw), from_obj(kw)}
        /\ op = "MapSource"
        /\ req = kw
        /\ out = Ok([fn |-> "self"], <<>>)

NextSource == Load \/ Discard

SpecSource == InitSource /\ [][NextSource]_vars

----------------------------------------------------------------------------
(* Properties *)

Called(names) == op \in names

Registered == {"hillshade", "quantile"}

UnknownExtras == {source.extras[i] : i \in DOMAIN source.extras} \ Registered

(* The aggregate a finished create_agg or render_map call worked on *)
AggOf == IF op = "create_agg" THEN out.val ELSE out.val.agg

(* The extent create_agg resolves the request to *)
ResolvedExtent ==
    IF ~IsNone(req.x) /\ ~IsNone(req.y) /\ ~IsNone(req.z)
    THEN get_tile_meters(Val(req.x), Val(req.y), Val(req.z))
    ELSE <<Val(req.xmin), Val(req.ymin), Val(req.xmax), Val(req.ymax)>>

NoTile == IsNone(req.x) \/ IsNone(req.y) \/ IsNone(req.z)
BoundUnset == IsNone(req.xmin) \/ IsNone(req.ymin) \/ IsNone(req.xmax) \/ IsNone(req.ymax)

(* C1: create_agg / render_map without a complete tile address and with a  *)
(* bound unset raise 'extent must be provided' before any library call is  *)
(* made, and return nothing.                                               *)
C1_ExtentRequired ==
    (Called({"create_agg", "render_map"}) /\ NoTile /\ BoundUnset)
        => /\ ~out.ok
           /\ out.err.type = "ValueError"
           /\ out.err.msg = "extent must be provided to create_agg()"
           /\ out.calls = <<>>
           /\ out.val = NoVal

C1_Witness ==
    /\ op = "render_map"
    /\ IsNone(req.x) /\ ~IsNone(req.z)
    /\ IsNone(req.ymax) /\ ~IsNone(req.xmin)
    /\ ~out.ok

(* C2: when a source lists an extra that is not registered, a render_map   *)
(* call that reaches the transform stage fails with an error naming that   *)
(* extra, and shade_agg does not run.                                      *)
C2_UnknownTransformFails ==
    (op = "render_map" /\ UnknownExtras # {}
       /\ \E i \in DOMAIN out.calls : out.calls[i] = "astype")
        => /\ ~out.ok
           /\ out.err.arg \in UnknownExtras
           /\ \A i \in DOMAIN out.calls : out.calls[i] # "shade"

(* C3: a raster source with three overviews aggregates from overviews[0]   *)
(* for z < 3, overviews[1] for 3 <= z < 6, overviews[2] for 6 <= z < 9,    *)
(* and from source.data for z >= 9, no z, or no overviews.                 *)
C3_OverviewByZoom ==
    (Called({"create_agg", "render_map"}) /\ out.ok
       /\ source.geometry_type = "raster" /\ Len(source.overviews) \in {0, 3})
        => AggOf.data =
             IF IsNone(req.z) \/ Len(source.overviews) = 0 \/ Val(req.z) >= 9
             THEN source.data.id
             ELSE IF Val(req.z) < 3 THEN source.overviews[1].id
             ELSE IF Val(req.z) < 6 THEN source.overviews[2].id
             ELSE source.overviews[3].id

C3_Witness ==
    /\ op = "create_agg" /\ out.ok
    /\ source.geometry_type = "raster" /\ Len(source.overviews) = 3
    /\ req.z = Some(3)
    /\ out.val.data = "overview1"

C3_WitnessBase ==
    /\ op = "create_agg" /\ out.ok
    /\ source.geometry_type = "raster" /\ Len(source.overviews) = 3
    /\ req.z = Some(9)
    /\ out.val.data = "base"

(* C4: the canvas raster_aggregation resamples onto is plot_width*(1+2p)   *)
(* by plot_height*(1+2p) pixels, and for p = 0 its ranges are the          *)
(* requested canvas's ranges.  (Sizes and ranges are held times PadDen.)   *)
C4_PaddedCanvasSize ==
    (op = "raster_aggregation" /\ out.ok)
        => /\ out.val.cvs.plot_width
                = req.cvs.plot_width * PadDen + 2 * req.padding * req.cvs.plot_width
           /\ out.val.cvs.plot_height
                = req.cvs.plot_height * PadDen + 2 * req.padding * req.cvs.plot_height
           /\ req.padding = 0
                => /\ out.val.cvs.x_range
                        = <<req.cvs.x_range[1] * PadDen, req.cvs.x_range[2] * PadDen>>
                   /\ out.val.cvs.y_range
                        = <<req.cvs.y_range[1] * PadDen, req.cvs.y_range[2] * PadDen>>

C4_Witness ==
    /\ op = "raster_aggregation" /\ out.ok
    /\ req.padding > 0
    /\ req.cvs.plot_width # req.cvs.plot_height

C4_WitnessNoPadding ==
    /\ op = "raster_aggregation" /\ out.ok
    /\ req.padding = 0
    /\ out.val.cvs.x_range # out.val.cvs.y_range

(* C5: with padding p > 0 the window raster_aggregation samples is         *)
(* (1 + 2p) times the requested range long on each axis.                   *)
C5_PaddedWindowLength ==
    (op = "raster_aggregation" /\ out.ok /\ req.padding > 0)
        => /\ out.val.cvs.x_range[2] - out.val.cvs.x_range[1]
                = (req.cvs.x_range[2] - req.cvs.x_range[1]) * (PadDen + 2 * req.padding)
           /\ out.val.cvs.y_range[2] - out.val.cvs.y_range[1]
                = (req.cvs.y_range[2] - req.cvs.y_range[1]) * (PadDen + 2 * req.padding)

(* C6: with a dict color map, shade_agg shades by color key only: neither  *)
(* span nor shade_how is passed, whatever the span and geometry type.      *)
C6_ColorKeyOnly ==
    (Called({"shade_agg", "render_map"}) /\ source.cmap.type = "dict"
       /\ (op = "render_map" => out.ok))
        => /\ out.ok
           /\ out.val.passed = {"color_key"}
           /\ out.val.color_key = source.cmap
           /\ out.val.how = ""
           /\ out.val.span = <<>>
           /\ out.val.crop = None

C6_Witness ==
    /\ op = "shade_agg" /\ out.ok
    /\ source.cmap.type = "dict"
    /\ source.span = MinMaxSpan /\ source.geometry_type = "raster"
    /\ out.val.passed = {"color_key"}

C6_WitnessPair ==
    /\ op = "render_map" /\ out.ok
    /\ source.cmap.type = "dict"
    /\ source.span = PairSpan /\ source.geometry_type = "polygon"

(* C7: for a raster source with span 'min/max', the image render_map       *)
(* returns covers the extent resolved for the request: the tile's extent   *)
(* when x, y, z are given, the explicit bounds otherwise.                  *)
C7_CropToResolvedExtent ==
    (op = "render_map" /\ out.ok /\ source.geometry_type = "raster"
       /\ source.span = MinMaxSpan /\ source.cmap.type # "dict")
        => /\ ~IsNone(out.val.crop)
           /\ out.val.x_range = <<ResolvedExtent[1] * out.val.agg.cvs.scale,
                                  ResolvedExtent[3] * out.val.agg.cvs.scale>>
           /\ out.val.y_range = <<ResolvedExtent[2] * out.val.agg.cvs.scale,
                                  ResolvedExtent[4] * out.val.agg.cvs.scale>>

(* C8: raster_aggregation never returns an aggregate of a window that      *)
(* selected zero rows or zero columns: it raises 'No data to rasterize'.   *)
C8_EmptyWindowRaises ==
    (op = "raster_aggregation" /\ out.ok)
        => (out.val.x # <<>> /\ out.val.y # <<>>)

(* C9: create_agg on a source of unknown geometry type fails with the      *)
(* unknown-geometry-type error, whose message names the source.            *)
C9_UnknownGeometryNamesSource ==
    (Called({"create_agg", "render_map"}) /\ ~(NoTile /\ BoundUnset)
       /\ source.geometry_type \notin {"point", "line", "polygon", "raster"})
        => /\ ~out.ok
           /\ out.err.type = "ValueError"
           /\ out.err.msg = "Unkown geometry type for"
           /\ out.err.arg = source.name

(* C10: render_map spreads exactly when dynspread is set and positive;     *)
(* otherwise it returns the image shade_agg returned.                      *)
C10_SpreadOnlyWhenPositive ==
    (op = "render_map" /\ out.ok)
        => LET positive == ~IsNone(source.dynspread) /\ Val(source.dynspread) > 0
               shaded == shade_agg(source, out.val.agg,
                                   req.xmin, req.ymin, req.xmax, req.ymax).val
           IN  /\ ~IsNone(out.val.max_px) <=> positive
               /\ (\E i \in DOMAIN out.calls : out.calls[i] = "dynspread") <=> positive
               /\ ~positive => out.val = shaded

C10_Witness ==
    /\ op = "render_map" /\ out.ok
    /\ source.dynspread = Some(0)
    /\ IsNone(out.val.max_px)

C10_WitnessSpread ==
    /\ op = "render_map" /\ out.ok
    /\ source.dynspread = Some(2)
    /\ out.val.max_px = Some(2)

(* C11: a render_map or render_geojson call, after any calls before it,    *)
(* leaves the source as it was: its data, its overviews and its            *)
(* configuration fields.                                                   *)
C11_SourceUnchanged ==
    [][(op' \in {"render_map", "render_geojson"}) => source' = source]_vars

C11_Witness ==
    /\ op = "render_map" /\ out.ok
    /\ out.writes # {}
    /\ source.geometry_type = "raster" /\ Len(source.overviews) = 3
    /\ source.extras # <<>>
    /\ \E i \in DOMAIN source.data.cells : source.data.cells[i] = Num(0)
    /\ \E i \in DOMAIN out.val.agg.cells : out.val.agg.cells[i] = NaN

C11_WitnessGeojson ==
    /\ op = "render_geojson" /\ out.ok
    /\ source.data.type = "spatialpandas.GeoDataFrame"

(* C12: a source constructed without data is loaded exactly once: a load() *)
(* that returns leaves is_loaded true, and a load() of a source that       *)
(* already holds data runs neither the load function nor the load-time     *)
(* transforms and leaves data and overviews as they were.                  *)
C12_LoadedOnce ==
    [][(op' = "load" /\ out'.ok) =>
          /\ source'.is_loaded
          /\ source.data # NoData =>
                /\ out'.calls = <<>>
                /\ source'.data = source.data
                /\ source'.overviews = source.overviews]_vars

HasZero(cells) == \E i \in DOMAIN cells : cells[i] = Num(0)

(* C13: apply_additional_transforms first copies the aggregate as float64  *)
(* and sets every exact-zero cell of the copy to NaN, then runs the extra  *)
(* transforms on it: a cell that was zero is NaN in the result, and with   *)
(* no extras the grid returned, and the grid render_map shades, holds no   *)
(* exact-zero cell.                                                        *)
C13_ZeroToNaNFirst ==
    /\ (op = "apply_additional_transforms") =>
          /\ out.ok
          /\ out.val.dtype = "float64"
          /\ out.val.buf # req.agg.buf
          /\ SubSeq(out.calls, 1, 2) = <<"astype", "setitem">>
          /\ \A i \in DOMAIN req.agg.cells :
                req.agg.cells[i] = Num(0) => out.val.cells[i] = NaN
          /\ source.extras = <<>> =>
                /\ ~HasZero(out.val.cells)
                /\ \A i \in DOMAIN req.agg.cells :
                      req.agg.cells[i] # Num(0) => out.val.cells[i] = req.agg.cells[i]
    /\ (op = "render_map" /\ out.ok /\ source.extras = <<>>) =>
          ~HasZero(out.val.agg.cells)

C13_Witness ==
    /\ op = "apply_additional_transforms"
    /\ source.extras = <<>>
    /\ req.agg.dtype = "uint32"
    /\ HasZero(req.agg.cells)
    /\ out.val.cells = <<Num(3), NaN, NaN, Num(5)>>

C13_WitnessExtras ==
    /\ op = "apply_additional_transforms"
    /\ source.extras = <<"quantile">>
    /\ req.agg.cells = <<Num(3), Num(0), Num(0), Num(5)>>
    /\ out.val.cells = <<Num(0), NaN, NaN, Num(1)>>

C13_WitnessRender ==
    /\ op = "render_map"
    /\ out.ok
    /\ source.extras = <<>>
    /\ HasZero(source.data.cells)
    /\ \E i \in DOMAIN out.val.agg.cells : out.val.agg.cells[i] = NaN

(* C14: for a raster source, create_agg resamples with the interpolation   *)
(* method the source was configured with (raster_interpolate), whatever    *)
(* the source's agg_func is.                                               *)
C14_ConfiguredInterpolation ==
    (op = "create_agg" /\ out.ok /\ source.geometry_type = "raster") =>
        out.val.interpolate = source.raster_agg_func

(* C15: a source constructed with raster_padding = p exposes               *)
(* raster_padding = p, the padding create_agg passes to raster_aggregation *)
C15_PaddingAsConfigured ==
    (op = "MapSource" /\ out.ok) => source.raster_padding = req.raster_padding

=============================================================================
